---- MODULE Spec2Model ----
(***************************************************************************)
(* line_counter (src/main.rs): counts lines, and optionally characters, of *)
(* one file or of the files of a directory tree, skipping the names of an  *)
(* ignore list.  The model follows main, Args::with_ignored and            *)
(* get_dir_lines statement by statement.  Text is a sequence of code       *)
(* points; a file name is a sequence of code points too, so that the lines *)
(* of the ignore file can be compared with it.                             *)
(***************************************************************************)
EXTENDS Naturals, Sequences, FiniteSets, TLC

\* ------------------------------------------------------------------ text

\* Code points.  LF and CR are the line terminators of str::lines; SP stands
\* for any other white space that str::trim removes.
LF == "LF"

CR == "CR"

SP == "SP"

Alphabet == {"a", SP, CR, LF}

\* char::is_whitespace, as used by str::trim().
IsWhitespace(c) == c \in {SP, CR, LF}

RECURSIVE FirstLF(_, _)
\* Index of the first LF of s at or after i, 0 when there is none.
FirstLF(s, i) ==
    IF i > Len(s) THEN 0
    ELSE IF s[i] = LF THEN i
    ELSE FirstLF(s, i + 1)

RECURSIVE SplitInclusive(_)
\* str::split_inclusive('\n'): the pieces of s, each ending with its LF,
\* the last one possibly unterminated; the empty string has no piece.
SplitInclusive(s) ==
    IF s = <<>> THEN <<>>
    ELSE LET i == FirstLF(s, 1)
         IN  IF i = 0 THEN <<s>>
             ELSE <<SubSeq(s, 1, i)>> \o SplitInclusive(SubSeq(s, i + 1, Len(s)))

\* What str::lines does to one piece: strip the LF, and then a CR before it.
\* An unterminated piece is returned whole (a bare trailing CR is kept).
StripTerminator(piece) ==
    IF piece = <<>> \/ piece[Len(piece)] # LF THEN piece
    ELSE LET l == SubSeq(piece, 1, Len(piece) - 1)
         IN  IF l = <<>> \/ l[Len(l)] # CR THEN l
             ELSE SubSeq(l, 1, Len(l) - 1)

\* buffer.lines()
Lines(buffer) ==
    LET pieces == SplitInclusive(buffer)
    IN  [i \in 1..Len(pieces) |-> StripTerminator(pieces[i])]

RECURSIVE TrimStart(_)
TrimStart(l) ==
    IF l # <<>> /\ IsWhitespace(l[1]) THEN TrimStart(Tail(l)) ELSE l

RECURSIVE TrimEnd(_)
TrimEnd(l) ==
    IF l # <<>> /\ IsWhitespace(l[Len(l)])
    THEN TrimEnd(SubSeq(l, 1, Len(l) - 1)) ELSE l

\* line.trim()
Trim(l) == TrimEnd(TrimStart(l))

\* Variant of the test below without the trim: !line.is_empty().
KeepsLineNoTrim(l) == l # <<>>

\* !line.trim().is_empty(): the test of the skip-empty-lines loops.
KeepsLine(l) == Trim(l) # <<>>

\* Variant of the count below on a line that still carries its LF.
CharsWithTerminator(l) == Len(l) + 1

\* line.chars().count(): the number of code points of the line.
CharsCount(l) == Len(l)

RECURSIVE SumChars(_)
\* The characters += ... of every line of a sequence of lines.
SumChars(ls) ==
    IF ls = <<>> THEN 0 ELSE CharsCount(Head(ls)) + SumChars(Tail(ls))

\* The counting block of get_dir_lines (lines 162-179), as the increments
\* it makes to (lines, characters) for one buffer.
CountBuffer(buffer, skip_empty_lines, count_chars) ==
    IF skip_empty_lines
    THEN LET kept == SelectSeq(Lines(buffer), KeepsLine)
         IN  [lines      |-> Len(kept),
              characters |-> IF count_chars THEN SumChars(kept) ELSE 0]
    ELSE [lines      |-> Len(Lines(buffer)),
          characters |-> IF count_chars THEN SumChars(Lines(buffer)) ELSE 0]

\* The same block in main (lines 80-97), for a root that is a file.
MainCountBuffer(buffer, skip_empty_lines, count_chars) ==
    IF skip_empty_lines
    THEN LET kept == SelectSeq(Lines(buffer), KeepsLine)
         IN  [lines      |-> Len(kept),
              characters |-> IF count_chars THEN SumChars(kept) ELSE 0]
    ELSE [lines      |-> Len(Lines(buffer)),
          characters |-> IF count_chars THEN SumChars(Lines(buffer)) ELSE 0]

\* ----------------------------------------------------------- file system

\* File names.  InvalidName is a name OsStr::to_str cannot represent.
LcIgnoreName == <<".", "l", "c", "i", "g", "n", "o", "r", "e">>

InvalidName == <<"INVALID">>

RootName == <<"r">>

Names == {<<"a">>, <<"b">>}

\* An entry of a directory.  fault says which system call fails on it:
\* "list" (the ReadDir iterator yields Err for it), "meta" (metadata()),
\* "read" (File::open / read_to_string of a file, read_dir of a directory).
File(name, content, fault) ==
    [name |-> name, kind |-> "file", content |-> content,
     entries |-> <<>>, fault |-> fault]

Dir(name, entries, fault) ==
    [name |-> name, kind |-> "dir", content |-> <<>>,
     entries |-> entries, fault |-> fault]

\* OsStr::to_str(): None for a name that is not valid Unicode.
ToStrOk(name) == name # InvalidName

\* ------------------------------------------------------------------ state

VARIABLES
    root,        \* the file or directory named by file_path (never changes)
    cmdline,     \* Args as parsed from the command line (never changes)
    args,        \* Args as main uses it, after with_ignored
    pc,          \* "start", "main", "walk", "report", "done", "failed"
    stack,       \* the active calls of get_dir_lines, innermost last
    totals,      \* main's (lines, characters)
    out,         \* the lines printed to standard output, in order
    err,         \* the Error main returns, "none" while there is none
    opened,      \* paths of the files opened for counting
    listed       \* paths of the directories read_dir was called on by the walk

vars == <<root, cmdline, args, pc, stack, totals, out, err, opened, listed>>

RootPath == <<RootName>>

\* ---------------------------------------------------------- with_ignored

\* Variant of Abort: main falls through to its report with the Err pending.
AbortKeepGoing(e) == pc' = "report" /\ err' = e

\* `?` on an Err: main returns it, nothing more runs.
Abort(e) == pc' = "failed" /\ err' = e

\* read_dir(..)?.flatten(): the entries the iterator yields Ok for.
ReadDirFlatten(entries) ==
    SelectSeq(entries, LAMBDA e : e.fault # "list")

\* ignored.lines().map(|line| line.trim().to_string()).collect()
ParseIgnore(text) ==
    LET ls == Lines(text) IN [i \in 1..Len(ls) |-> Trim(ls[i])]

\* Lines 44-48: self.ignored is assigned, then ".lcignore" is pushed.
LoadIgnored(ignored, text) ==
    ParseIgnore(text) \o <<LcIgnoreName>>

RECURSIVE ScanIgnore(_, _)
\* The for loop of with_ignored over the entries the listing yields:
\* the ignore list it ends with, or ok = FALSE when open/read fails.
ScanIgnore(entries, ignored) ==
    IF entries = <<>> THEN [ok |-> TRUE, ignored |-> ignored]
    ELSE LET e == Head(entries)
         IN  IF e.name # LcIgnoreName THEN ScanIgnore(Tail(entries), ignored)
             ELSE IF e.kind = "dir" \/ e.fault = "read"
             THEN [ok |-> FALSE, ignored |-> ignored]
             ELSE ScanIgnore(Tail(entries), LoadIgnored(ignored, e.content))

\* Args::with_ignored, called by main on the parsed arguments.
WithIgnored ==
    /\ pc = "start"
    /\ UNCHANGED <<root, cmdline, stack, totals, out, opened, listed>>
    /\ IF root.fault = "meta"
       THEN Abort("LcIoError") /\ UNCHANGED args
       ELSE IF root.kind # "dir"
       THEN pc' = "main" /\ UNCHANGED <<args, err>>
       ELSE IF root.fault = "read"
       THEN Abort("LcIoError") /\ UNCHANGED args
       ELSE LET r == ScanIgnore(ReadDirFlatten(root.entries), args.ignored)
            IN  IF r.ok
                THEN /\ args' = [args EXCEPT !.ignored = r.ignored]
                     /\ pc' = "main"
                     /\ UNCHANGED err
                ELSE Abort("LcIoError") /\ UNCHANGED args

\* ------------------------------------------------------------ main, file

\* The program constant of `if lines == 69`.
Nice == 69

HeaderLine(path, depth) ==
    [kind |-> "header", path |-> path, depth |-> depth, n |-> 0]

FileLine(path, depth, n) ==
    [kind |-> "file", path |-> path, depth |-> depth, n |-> n]

NiceLine == [kind |-> "nice", path |-> <<>>, depth |-> 0, n |-> 0]

TotalLine(kind, n) == [kind |-> kind, path |-> <<>>, depth |-> 0, n |-> n]

\* Variant of NewFrame: lines starts from the caller's running total.
NewFrameCarry(path, depth, entries) ==
    [path |-> path, depth |-> depth,
     lines |-> IF stack = <<>> THEN 0 ELSE stack[Len(stack)].lines,
     characters |-> 0, maybe_dirs |-> <<>>,
     todo |-> ReadDirFlatten(entries)]

\* The locals of a call of get_dir_lines (lines 126-130) and the iterator
\* of its for loop (line 137).
NewFrame(path, depth, entries) ==
    [path |-> path, depth |-> depth, lines |-> 0, characters |-> 0,
     maybe_dirs |-> <<>>, todo |-> ReadDirFlatten(entries)]

\* main, lines 68 and 75-98: the root is a file.
MainFile ==
    /\ pc = "main"
    /\ root.kind = "file"
    /\ opened' = opened \cup {RootPath}
    /\ UNCHANGED <<root, cmdline, args, stack, out, listed>>
    /\ IF root.fault = "read"
       THEN Abort("LcIoError") /\ UNCHANGED totals
       ELSE /\ totals' = MainCountBuffer(root.content, args.skip_empty_lines,
                                         args.count_chars)
            /\ pc' = "report"
            /\ UNCHANGED err

\* main, lines 68 and 73-74: the root is a directory; the call of
\* get_dir_lines up to its for loop (lines 126-137).
MainDir ==
    /\ pc = "main"
    /\ root.kind = "dir"
    /\ out' = Append(out, HeaderLine(RootPath, 0))
    /\ listed' = listed \cup {RootPath}
    /\ UNCHANGED <<root, cmdline, args, totals, opened>>
    /\ IF root.fault = "read"
       THEN Abort("LcIoError") /\ UNCHANGED stack
       ELSE /\ stack' = <<NewFrame(RootPath, 0, root.entries)>>
            /\ pc' = "walk"
            /\ UNCHANGED err

\* ---------------------------------------------------------- get_dir_lines

\* Variant of IsIgnored: `break` for `continue 'outer`, nothing is skipped.
IsIgnoredBreak(name, ignored) == FALSE

\* Lines 144-148: the name equals a member of args.ignored.
IsIgnored(name, ignored) ==
    \E i \in 1..Len(ignored) : ignored[i] = name

\* Variant of DeferDir without the test of args.recursive.
DeferDirAlways(maybe_dirs, entry, recursive) == Append(maybe_dirs, entry)

\* Lines 150-155: a directory is pushed on maybe_dirs in recursive mode only.
DeferDir(maybe_dirs, entry, recursive) ==
    IF recursive THEN Append(maybe_dirs, entry) ELSE maybe_dirs

\* Variant of NiceCheck: `if lines >= 69`.
NiceCheckAtLeast(lines) == lines >= Nice

\* Line 188: if lines == 69.
NiceCheck(lines) == lines = Nice

\* Variant of Fold: `=` for `+=`.
FoldAssign(frame, tmp) ==
    [frame EXCEPT !.lines = tmp.lines, !.characters = tmp.characters]

\* Lines 199-200: the callee's totals are added to the caller's.
Fold(frame, tmp) ==
    [frame EXCEPT !.lines = @ + tmp.lines,
                  !.characters = @ + tmp.characters]

Top == stack[Len(stack)]

SetTop(f) == [stack EXCEPT ![Len(stack)] = f]

\* One iteration of the for loop of lines 137-191.  dbg!(characters) writes
\* to standard error and is no part of out.
LoopEntry ==
    /\ pc = "walk"
    /\ Top.todo # <<>>
    /\ UNCHANGED <<root, cmdline, args, totals, listed>>
    /\ LET e    == Head(Top.todo)
           rest == [Top EXCEPT !.todo = Tail(@)]
           path == Append(Top.path, e.name)
       IN  IF ~ToStrOk(e.name)
           THEN Abort("FileNameError") /\ UNCHANGED <<stack, out, opened>>
           ELSE IF IsIgnored(e.name, args.ignored)
           THEN /\ stack' = SetTop(rest)
                /\ UNCHANGED <<pc, err, out, opened>>
           ELSE IF e.fault = "meta"
           THEN Abort("LcIoError") /\ UNCHANGED <<stack, out, opened>>
           ELSE IF e.kind = "dir"
           THEN /\ stack' = SetTop([rest EXCEPT !.maybe_dirs =
                                 DeferDir(@, e, args.recursive)])
                /\ UNCHANGED <<pc, err, out, opened>>
           ELSE IF e.fault = "read"
           THEN /\ Abort("LcIoError")
                /\ opened' = opened \cup {path}
                /\ UNCHANGED <<stack, out>>
           ELSE LET c == CountBuffer(e.content, args.skip_empty_lines,
                                     args.count_chars)
                    lines == Top.lines + c.lines
                IN  /\ stack' = SetTop([rest EXCEPT
                                   !.lines = lines,
                                   !.characters = @ + c.characters])
                    /\ opened' = opened \cup {path}
                    /\ out' = out \o <<FileLine(path, Top.depth, lines)>>
                                \o (IF NiceCheck(lines) THEN <<NiceLine>>
                                    ELSE <<>>)
                    /\ UNCHANGED <<pc, err>>

\* One iteration of the for loop of lines 192-197: the recursive call, up to
\* the callee's for loop (lines 126-137).
RecurseDir ==
    /\ pc = "walk"
    /\ Top.todo = <<>>
    /\ Top.maybe_dirs # <<>>
    /\ UNCHANGED <<root, cmdline, args, totals, opened>>
    /\ LET dir  == Head(Top.maybe_dirs)
           path == Append(Top.path, dir.name)
       IN  /\ out' = Append(out, HeaderLine(path, Top.depth + 1))
           /\ listed' = listed \cup {path}
           /\ IF dir.fault = "read"
              THEN Abort("LcIoError") /\ UNCHANGED stack
              ELSE /\ stack' = Append(
                        SetTop([Top EXCEPT !.maybe_dirs = Tail(@)]),
                        NewFrame(path, Top.depth + 1, dir.entries))
                   /\ UNCHANGED <<pc, err>>

\* Line 203, and what the caller does with the value: lines 199-200 in
\* get_dir_lines, line 74 in main.
ReturnDir ==
    /\ pc = "walk"
    /\ Top.todo = <<>>
    /\ Top.maybe_dirs = <<>>
    /\ UNCHANGED <<root, cmdline, args, out, err, opened, listed>>
    /\ IF Len(stack) = 1
       THEN /\ totals' = [lines |-> Top.lines, characters |-> Top.characters]
            /\ stack' = <<>>
            /\ pc' = "report"
       ELSE /\ stack' = [i \in 1..(Len(stack) - 1) |->
                           IF i = Len(stack) - 1
                           THEN Fold(stack[i], Top) ELSE stack[i]]
            /\ UNCHANGED <<pc, totals>>

\* main, lines 100-122.
Report ==
    /\ pc = "report"
    /\ out' = out \o <<TotalLine("total_lines", totals.lines)>>
                  \o (IF args.count_chars
                      THEN <<TotalLine("total_chars", totals.characters)>>
                      ELSE <<>>)
    /\ pc' = "done"
    /\ UNCHANGED <<root, cmdline, args, stack, totals, err, opened, listed>>

Next ==
    \/ WithIgnored
    \/ MainFile
    \/ MainDir
    \/ LoopEntry
    \/ RecurseDir
    \/ ReturnDir
    \/ Report

\* ------------------------------------------------------------ the inputs

\* Bounds of the inputs.
MaxNodes == 3

MaxLen == 4

\* File contents of the walks: one terminated line, and a file with CR LF,
\* a white-space line and an unterminated last line.
Contents ==
    { <<"a", LF>>,
      <<"a", CR, LF, SP, LF, "a", "a">> }

\* Ignore files: "b", and " a \r\n\n" (white space to trim, a blank line).
IgnoreTexts == { <<"b">>, <<SP, "a", SP, CR, LF, LF>> }

\* The entries without children that a directory can hold under a name:
\* those on which no system call fails, and those on which one does.
GoodLeaves(name, cs) ==
    {File(name, c, "none") : c \in cs} \cup {Dir(name, <<>>, "none")}

FaultyLeaves(name) ==
    {File(name, <<>>, f) : f \in {"list", "meta", "read"}}
    \cup {Dir(name, <<>>, "read")}

RECURSIVE Forests(_, _, _, _)
RECURSIVE Trees(_, _, _, _)
\* The entries named nm whose subtree has k entries (itself included).
\* flt says whether one entry of the subtree may be a faulty one.
Trees(k, nm, flt, cs) ==
    (IF k = 1
     THEN GoodLeaves(nm, cs) \cup (IF flt THEN FaultyLeaves(nm) ELSE {})
     ELSE { Dir(nm, sub, "none") : sub \in Forests(k - 1, Names, flt, cs) })

\* The directory listings of n entries in all (subdirectories' included),
\* in every order, with names from avail that differ within one directory.
\* flt says whether one entry may be a faulty one (a failing system call,
\* or a name that is not valid Unicode); cs is the set of file contents.
Forests(n, avail, flt, cs) ==
    IF n = 0 THEN {<<>>}
    ELSE UNION {
           { <<t>> \o r : t \in Trees(k, nm, FALSE, cs),
                          r \in Forests(n - k, avail \ {nm}, flt, cs) }
           \cup (IF flt
                 THEN { <<t>> \o r : t \in Trees(k, nm, TRUE, cs),
                                     r \in Forests(n - k, avail \ {nm}, FALSE, cs) }
                 ELSE {})
           : nm \in avail, k \in 1..n }
         \cup (IF flt
               THEN { <<File(InvalidName, <<>>, "none")>> \o r
                      : r \in Forests(n - 1, avail, FALSE, cs) }
               ELSE {})

AllForests(max, flt, cs) ==
    UNION { Forests(n, Names, flt, cs) : n \in 0..max }

Flags == [skip_empty_lines : BOOLEAN, recursive : BOOLEAN,
          count_chars : BOOLEAN]

MkArgs(fl, ignored) ==
    [skip_empty_lines |-> fl.skip_empty_lines, recursive |-> fl.recursive,
     count_chars |-> fl.count_chars, ignored |-> ignored]

Start(r, a) ==
    /\ root = r
    /\ cmdline = a
    /\ args = a
    /\ pc = "start"
    /\ stack = <<>>
    /\ totals = [lines |-> 0, characters |-> 0]
    /\ out = <<>>
    /\ err = "none"
    /\ opened = {}
    /\ listed = {}

\* The roots of the walks: a path that does not exist, a file, a directory
\* that cannot be listed, and the directory trees of at most MaxNodes
\* entries, with or without an ignore file in the root.
Roots ==
    {File(RootName, <<>>, "meta"), File(RootName, <<>>, "read"),
     Dir(RootName, <<>>, "read")}
    \cup {File(RootName, c, "none") : c \in Contents}
    \cup {Dir(RootName, f, "none") : f \in AllForests(MaxNodes, TRUE, Contents)}
    \cup {Dir(RootName, <<File(LcIgnoreName, t, "none")>> \o f, "none") :
            t \in IgnoreTexts, f \in AllForests(MaxNodes, TRUE, Contents)}
    \cup {Dir(RootName, <<File(LcIgnoreName, <<>>, "read")>> \o f, "none") :
            f \in AllForests(MaxNodes, FALSE, Contents)}

Init ==
    \E r \in Roots, fl \in Flags, ig \in {<<>>, << <<"a">> >>} :
        Start(r, MkArgs(fl, ig))

Spec == Init /\ [][Next]_vars

\* Counting alone: every text of at most MaxLen code points, as the root
\* file, as the only file of the root directory, and as the only file of
\* its only subdirectory.
Texts == UNION { [1..k -> Alphabet] : k \in 0..MaxLen }

CountRoots ==
    UNION { { File(RootName, c, "none"),
              Dir(RootName, <<File(<<"a">>, c, "none")>>, "none"),
              Dir(RootName, <<Dir(<<"b">>, <<File(<<"a">>, c, "none")>>,
                                  "none")>>, "none") }
            : c \in Texts }

InitCount ==
    \E r \in CountRoots, fl \in Flags : Start(r, MkArgs(fl, <<>>))

SpecCount == InitCount /\ [][Next]_vars

\* Walks whose running totals reach Nice: files of 1, Nice - 1 and Nice lines.
Repeat(n) == [i \in 1..(2 * n) |-> IF i % 2 = 1 THEN "a" ELSE LF]

NiceContents == {Repeat(1), Repeat(Nice - 1), Repeat(Nice)}

NiceRoots ==
    {File(RootName, c, "none") : c \in NiceContents}
    \cup {Dir(RootName, f, "none") :
            f \in AllForests(MaxNodes, FALSE, NiceContents)}

InitNice ==
    \E r \in NiceRoots, fl \in Flags : Start(r, MkArgs(fl, <<>>))

SpecNice == InitNice /\ [][Next]_vars

\* ---------------------------------------------------- reference notions

\* The tree as a set of (path, node) pairs, the root included.
RECURSIVE Under(_, _)
Under(node, path) ==
    {[path |-> path, node |-> node]}
    \cup UNION { Under(node.entries[i], Append(path, node.entries[i].name))
                 : i \in 1..Len(node.entries) }

AllNodes == Under(root, RootPath)

Parent(path) == SubSeq(path, 1, Len(path) - 1)

NodeAt(path) == (CHOOSE x \in AllNodes : x.path = path).node

\* The ignore set the walk uses.
IgnoreSet == {args.ignored[i] : i \in 1..Len(args.ignored)}

\* Some component of the path below the root is in the ignore set.
HasIgnoredName(path) == \E i \in 2..Len(path) : path[i] \in IgnoreSet

\* The individual counts of a file, by the flags of the run.
CountOf(path) ==
    CountBuffer(NodeAt(path).content, args.skip_empty_lines, args.count_chars)

RECURSIVE SumLines(_)
SumLines(paths) ==
    IF paths = {} THEN 0
    ELSE LET p == CHOOSE q \in paths : TRUE
         IN  CountOf(p).lines + SumLines(paths \ {p})

RECURSIVE SumCharacters(_)
SumCharacters(paths) ==
    IF paths = {} THEN 0
    ELSE LET p == CHOOSE q \in paths : TRUE
         IN  CountOf(p).characters + SumCharacters(paths \ {p})

\* The files of one directory that a listing yields and that are not ignored.
FilesOf(dirpath) ==
    { x.path : x \in { y \in AllNodes :
                         /\ Len(y.path) > 1
                         /\ Parent(y.path) = dirpath
                         /\ y.node.kind = "file"
                         /\ y.node.fault # "list"
                         /\ y.node.name \notin IgnoreSet } }

\* The directories reachable from the root through directories that a
\* listing yields and that are not ignored.
ReachableDirs ==
    { x.path : x \in { y \in AllNodes :
                         /\ y.node.kind = "dir"
                         /\ ~HasIgnoredName(y.path)
                         /\ \A k \in 2..Len(y.path) :
                              NodeAt(SubSeq(y.path, 1, k)).fault # "list" } }

Finished == pc \in {"report", "done"}

OutIdx == 1..Len(out)

\* ----------------------------------------------------------------- claims

\* C1: an entry whose name is in the ignore set is never opened, listed or
\* descended into, at any depth and whatever the recursive flag; it has no
\* output line and no share in the totals, which are the sum of the counts of
\* the files opened.
IgnoredEntriesUntouched ==
    /\ \A p \in opened \cup listed : ~HasIgnoredName(p)
    /\ \A i \in OutIdx : ~HasIgnoredName(out[i].path)
    /\ \A k \in 1..Len(stack) :
         /\ ~HasIgnoredName(stack[k].path)
         /\ \A j \in 1..Len(stack[k].maybe_dirs) :
              stack[k].maybe_dirs[j].name \notin IgnoreSet
    /\ Finished => /\ totals.lines = SumLines(opened)
                   /\ totals.characters = SumCharacters(opened)

\* C1 witness: a finished recursive walk that counted something and whose
\* root holds an ignored directory with a file of at least one line in it.
IgnoredDirWithFileWitness ==
    /\ pc = "done"
    /\ args.recursive
    /\ totals.lines > 0
    /\ \E x \in AllNodes :
         /\ Len(x.path) = 3
         /\ x.node.kind = "file"
         /\ x.node.content # <<>>
         /\ x.path[2] \in IgnoreSet

\* C2: in recursive mode the totals are the sum, over the directories
\* reachable through non-ignored directories, of each directory's own files;
\* exactly those directories are listed and exactly those files are opened,
\* each printed once.
RecursiveTotalIsSumOfLevels ==
    (Finished /\ root.kind = "dir" /\ args.recursive) =>
        LET files == UNION { FilesOf(d) : d \in ReachableDirs }
        IN  /\ listed = ReachableDirs
            /\ opened = files
            /\ totals.lines = SumLines(files)
            /\ totals.characters = SumCharacters(files)
            /\ \A p \in files :
                 Cardinality({i \in OutIdx :
                     out[i].kind = "file" /\ out[i].path = p}) = 1

\* C2 witness: a finished recursive walk with counted lines both in the
\* root and in a directory below it.
TwoLevelsCountedWitness ==
    /\ pc = "done"
    /\ args.recursive
    /\ \E p, q \in opened :
         /\ Len(p) = 2 /\ Len(q) > 2
         /\ CountOf(p).lines > 0 /\ CountOf(q).lines > 0
         /\ CountOf(q).characters > 0

\* C3: without the recursive flag the totals are those of the non-ignored
\* files directly in the root; no subdirectory is listed, opened as a file,
\* queued or counted.
NonRecursiveCountsRootOnly ==
    (root.kind = "dir" /\ ~args.recursive) =>
        /\ listed \subseteq {RootPath}
        /\ \A p \in opened : Len(p) = 2 /\ NodeAt(p).kind = "file"
        /\ \A k \in 1..Len(stack) : stack[k].maybe_dirs = <<>>
        /\ Finished => /\ opened = FilesOf(RootPath)
                       /\ totals.lines = SumLines(FilesOf(RootPath))
                       /\ totals.characters = SumCharacters(FilesOf(RootPath))

\* C3 witness: a finished non-recursive walk that counted a root file and
\* passed over a non-ignored subdirectory holding a file with lines.
SubdirSkippedWitness ==
    /\ pc = "done"
    /\ ~args.recursive
    /\ totals.lines > 0
    /\ \E x \in AllNodes :
         /\ Len(x.path) = 3
         /\ ~HasIgnoredName(x.path)
         /\ x.node.kind = "file"
         /\ Len(x.node.content) > 2

\* The one file of a root of the counting runs, and its text.
TheFile == CHOOSE x \in AllNodes : x.node.kind = "file"

TheText == TheFile.node.content

\* A line starts at the first code point and after every LF.
LineStarts(s) == {p \in 1..Len(s) : p = 1 \/ s[p - 1] = LF}

\* The position of the LF that ends the line starting at p, Len(s) + 1 for
\* an unterminated last line.
LineStop(s, p) ==
    CHOOSE q \in p..(Len(s) + 1) :
        /\ q = Len(s) + 1 \/ s[q] = LF
        /\ \A j \in p..(q - 1) : s[j] # LF

\* The lines with a code point that is not white space: the K of the claim.
NonEmptyStarts(s) ==
    {p \in LineStarts(s) : \E j \in p..(LineStop(s, p) - 1) : s[j] \notin {SP, CR, LF}}

\* The lines that are empty or white space only: the E of the claim.
EmptyStarts(s) == LineStarts(s) \ NonEmptyStarts(s)

\* The code points of the line starting at p: those up to its LF, without
\* the CR of a CR LF pair.
TextLen(s, p) ==
    LET q == LineStop(s, p)
    IN  IF q <= Len(s) /\ q - 1 >= p /\ s[q - 1] = CR
        THEN q - 1 - p ELSE q - p

RECURSIVE SumTextLen(_, _)
SumTextLen(s, starts) ==
    IF starts = {} THEN 0
    ELSE LET p == CHOOSE q \in starts : TRUE
         IN  TextLen(s, p) + SumTextLen(s, starts \ {p})

\* The line terminators of s: every LF, and every CR right before an LF.
Terminators(s) ==
    {i \in 1..Len(s) : s[i] = LF \/ (s[i] = CR /\ i < Len(s) /\ s[i + 1] = LF)}

\* The file of a counting run was reached and counted.
Counted == Finished /\ TheFile.path \in opened

\* C4: a text with K lines that are not empty after trimming and E lines
\* that are empty or white space only counts K lines with skip-empty-lines
\* and K + E without, as the root file and as a file in a directory; the
\* number printed for the file in a directory is the same.
LineCountIsKOrKPlusE ==
    LET K == Cardinality(NonEmptyStarts(TheText))
        E == Cardinality(EmptyStarts(TheText))
        n == IF args.skip_empty_lines THEN K ELSE K + E
    IN  /\ Counted => totals.lines = n
        /\ \A i \in OutIdx : out[i].kind = "file" => out[i].n = n

\* C4 witness: a file in a directory, counted with skip-empty-lines, with
\* a CR LF line, a white-space line and an unterminated last line.
SkipEmptyInDirWitness ==
    /\ pc = "done"
    /\ root.kind = "dir"
    /\ args.skip_empty_lines
    /\ Counted
    /\ TheText = <<"a", CR, LF, SP>>
    /\ totals.lines = 1

\* C5: with count_chars the character total is the sum of the code points
\* of the counted lines, untrimmed and without their terminators (LF, or CR
\* LF); without skip-empty-lines that is every code point of the text but
\* its terminators.  Without count_chars the total stays 0.
CharacterCountExcludesTerminators ==
    Counted =>
        LET starts == IF args.skip_empty_lines
                      THEN NonEmptyStarts(TheText) ELSE LineStarts(TheText)
        IN  /\ args.count_chars =>
                 totals.characters = SumTextLen(TheText, starts)
            /\ (args.count_chars /\ ~args.skip_empty_lines) =>
                 totals.characters
                     = Len(TheText) - Cardinality(Terminators(TheText))
            /\ ~args.count_chars => totals.characters = 0

\* C5 witness: characters counted, with skip-empty-lines, of a text with a
\* CR LF line whose kept line has white space around it.
CharsOfCrLfTextWitness ==
    /\ pc = "done"
    /\ args.count_chars
    /\ args.skip_empty_lines
    /\ Counted
    /\ TheText = <<SP, "a", CR, LF>>
    /\ totals.characters = 2

\* C6: a finished run met no entry whose listing, name decoding, metadata
\* or reading fails: any such entry of a listed directory, if not skipped as
\* ignored, aborts the run.
FailFastOnEveryEntry ==
    Finished =>
        \A x \in AllNodes :
            (Len(x.path) > 1 /\ Parent(x.path) \in listed) =>
                /\ x.node.fault # "list"
                /\ ToStrOk(x.node.name)
                /\ (x.node.name \notin IgnoreSet) =>
                      /\ x.node.fault # "meta"
                      /\ (x.node.kind = "file" \/ args.recursive)
                            => x.node.fault # "read"

\* The same without the listing errors, which the code does skip.
FailFastButListing ==
    Finished =>
        \A x \in AllNodes :
            (Len(x.path) > 1 /\ Parent(x.path) \in listed) =>
                /\ x.node.fault # "list" => ToStrOk(x.node.name)
                /\ (x.node.fault # "list" /\ x.node.name \notin IgnoreSet) =>
                      /\ x.node.fault # "meta"
                      /\ (x.node.kind = "file" \/ args.recursive)
                            => x.node.fault # "read"

\* C7, as the spec states it: a failed run has printed no per-file count and
\* no total.
NoCountsPrintedOnFailure ==
    err # "none" =>
        \A i \in OutIdx : out[i].kind \notin {"file", "total_lines", "total_chars"}

\* C7, amended: a failed run prints no total line and nothing after the
\* failure; the per-file counts printed before the failure stay.
NoTotalPrintedOnFailure ==
    err # "none" =>
        /\ pc = "failed"
        /\ \A i \in OutIdx : out[i].kind \notin {"total_lines", "total_chars"}

\* C7 witness: a run that failed after printing a file's count.
FailedAfterFileLineWitness ==
    /\ pc = "failed"
    /\ \E i \in OutIdx : out[i].kind = "file" /\ out[i].n > 0

\* C8: for a directory root the ignore set of the walk holds every name
\* given on the command line, and with an ignore file also its names and
\* ".lcignore".
CommandLineIgnoredKept ==
    (root.kind = "dir" /\ pc \notin {"start", "failed"}) =>
        /\ \A i \in 1..Len(cmdline.ignored) : cmdline.ignored[i] \in IgnoreSet
        /\ \A i \in 1..Len(root.entries) :
             root.entries[i].name = LcIgnoreName =>
                 /\ LcIgnoreName \in IgnoreSet
                 /\ \A n \in Names :
                      (\E j \in 1..Len(root.entries[i].content) :
                           root.entries[i].content[j] = n[1])
                      => n \in IgnoreSet

\* The output lines of the files of one directory, up to position j.
FileLinesOf(dirpath, j) ==
    {i \in 1..j : out[i].kind = "file" /\ Parent(out[i].path) = dirpath}

\* C9: within a directory every non-ignored file is read, counted and
\* printed before the header of any of its subdirectories; the number on a
\* file's line is the sum of the lines of the files of that directory
\* printed so far (so it starts from zero in each directory, never
\* decreases, and holds no line of a subdirectory).
FilesBeforeSubdirectories ==
    /\ \A j \in OutIdx :
         (out[j].kind = "header" /\ Len(out[j].path) > 1) =>
            LET d == Parent(out[j].path)
            IN  /\ \A p \in FilesOf(d) : p \in opened /\
                      \E i \in 1..(j - 1) :
                          out[i].kind = "file" /\ out[i].path = p
                /\ \A i \in (j + 1)..Len(out) :
                      out[i].kind = "file" => Parent(out[i].path) # d
    /\ \A j \in OutIdx :
         out[j].kind = "file" =>
            LET d == Parent(out[j].path)
            IN  /\ out[j].n = SumLines({out[i].path : i \in FileLinesOf(d, j)})
                /\ \A i \in FileLinesOf(d, j) : out[i].n <= out[j].n

\* C9 witness: the listing of the root yields a subdirectory before a file;
\* the file's line is printed first, then the subdirectory's header and the
\* line of a file in it, whose number is smaller than the root's.
DeferredSubdirWitness ==
    \E i, j, k \in OutIdx :
        /\ i < j /\ j < k
        /\ out[i].kind = "file" /\ Len(out[i].path) = 2
        /\ out[j].kind = "header" /\ Len(out[j].path) = 2
        /\ out[k].kind = "file" /\ Parent(out[k].path) = out[j].path
        /\ 0 < out[k].n /\ out[k].n < out[i].n
        /\ root.entries[1].kind = "dir"
        /\ root.entries[1].name = out[j].path[2]

\* C10: "NICE!" is printed right after a file's line whose running total is
\* Nice, after every such line, and nowhere else: not after a line with a
\* larger total, not when the totals of a subdirectory are added.
NiceOnlyAfterLineOfNice ==
    /\ \A i \in OutIdx :
         out[i].kind = "nice" =>
            i > 1 /\ out[i - 1].kind = "file" /\ out[i - 1].n = Nice
    /\ \A i \in OutIdx :
         (out[i].kind = "file" /\ out[i].n = Nice) =>
            i < Len(out) /\ out[i + 1].kind = "nice"

\* C10 witness: "NICE!" after a file's line, and the next file of the
\* directory brings the total to Nice + 1 with no second "NICE!".
NiceThenSeventyWitness ==
    /\ pc = "done"
    /\ \E i \in OutIdx :
         /\ out[i].kind = "nice"
         /\ i < Len(out)
         /\ out[i + 1].kind = "file"
         /\ out[i + 1].n = Nice + 1
         /\ Cardinality({k \in OutIdx : out[k].kind = "nice"}) = 1

====
